---- MODULE Spec2Model ----
(***************************************************************************)
(* Model of provisioningserver/rpc/clusterservice.py: ClusterClientService *)
(* (the periodic update of the connections to the region's event-loops)    *)
(* and ClusterClient (the protocol instances that maintain the service's   *)
(* `connections` map).                                                     *)
(*                                                                         *)
(* One action is one reactor callback: everything the code runs between    *)
(* two suspension points (a Deferred that has not fired yet).  A `yield`   *)
(* of a value that is not a Deferred (what _drop_connection returns) does  *)
(* not suspend.                                                            *)
(***************************************************************************)
EXTENDS Integers, Sequences, FiniteSets, TLC

\* Number of ClusterClient instances whose transport ever connects.
MaxInst == 2

\* ClusterClientService.INTERVAL_LOW / INTERVAL_MID / INTERVAL_HIGH (seconds).
INTERVAL_LOW == 2
INTERVAL_MID == 10
INTERVAL_HIGH == 30

\* The largest count of event-loops and of connections _calculate_interval is
\* applied to.
MaxCount == 10

\* The largest number of disks get_disk_info returns to maas_wipe.main.
MaxDisks == 2

\* Python's None, where a name is expected.
None == "<None>"

\* Event-loop names and the (host, port) addresses the region can advertise.
Names == {"region1", "region2"}
AddrA == <<"10.0.0.1", 5250>>
AddrB == <<"10.0.0.2", 5250>>

\* The address lists an event-loop can be advertised with, in listed order:
\* region1 is multi-homed and can migrate, region2 has one address.
AddrLists(name) ==
    IF name = "region1"
    THEN {<<AddrA>>, <<AddrB>>, <<AddrA, AddrB>>}
    ELSE {<<AddrA>>}

\* The value of the "eventloops" key: a mapping of some names to address lists.
Topologies ==
    UNION {{t \in [D -> UNION {AddrLists(n) : n \in Names}] :
               \A n \in D : t[n] \in AddrLists(n)} : D \in SUBSET Names}

\* A JSON object without any key.
EmptyObject == [k \in {} |-> 0]

\* What the fetch of the RPC info page ends with: a ConnectError, another
\* failure (bad status, body that json.loads rejects), a JSON object that has
\* or has not the "eventloops" key, or a JSON object whose "eventloops" is not
\* an object (null, a list), of which the body is not modelled.
FetchResults ==
    {[kind |-> "ConnectError", body |-> EmptyObject],
     [kind |-> "error", body |-> EmptyObject],
     [kind |-> "json", body |-> EmptyObject],
     [kind |-> "json-eventloops-not-object", body |-> EmptyObject]}
    \cup {[kind |-> "json", body |-> [eventloops |-> t]] : t \in Topologies}

\* The exception update()'s try block ends with for a fetch result, before
\* any connection is dropped or made: the failure of the fetch, the KeyError
\* of info["eventloops"], the AttributeError of eventloops.iteritems() in
\* _update_connections; "none" when the pass goes on with a topology.
Raised(r) ==
    IF r.kind = "ConnectError" THEN "ConnectError"
    ELSE IF r.kind = "error" THEN "Error"
    ELSE IF r.kind = "json-eventloops-not-object" THEN "AttributeError"
    ELSE IF "eventloops" \notin DOMAIN r.body THEN "KeyError"
    ELSE "none"

\* The fetch results from which update() gets a topology.
FetchedTopologies == {r \in FetchResults : Raised(r) = "none"}

\* Mutant of ExceptClause: update() without its bare except clause.
ExceptClause_OnlyConnectError(exc) ==
    IF exc = "ConnectError" THEN "except ConnectError" ELSE "unhandled"

\* The except clause of update() that handles an exception.
ExceptClause(exc) ==
    IF exc = "ConnectError" THEN "except ConnectError" ELSE "except"

\* The responses to the Identify command: {"ident": <name>}, and the same
\* under the key secureConnection reads, {"name": <name>}.
IdentifyResponses ==
    {[ident |-> n] : n \in Names} \cup {[name |-> n] : n \in Names}

\* dict.get(key): the value, or None when the key is missing.
Get(d, key) == IF key \in DOMAIN d THEN d[key] ELSE None

Range(s) == {s[i] : i \in DOMAIN s}

\* The orders in which a dict with the keys D can be iterated.
Orders(D) == {s \in [1..Cardinality(D) -> D] : Range(s) = D}

VARIABLES
    running,       \* service.running
    connections,   \* service.connections: name -> instance (0: no entry)
    clients,       \* the ClusterClient instances whose transport connected
    pc,            \* where update() is: "idle", "fetching" or "dialing"; or
                   \* "failed" had update() raised
    eventloops,    \* update()'s local eventloops, kept until the next fetch
    fetched,       \* whether the last fetch gave update() its eventloops
    repeat,        \* whether the fetch before the last one gave the same
    order,         \* the iteration order of eventloops in this pass
    ni,            \* connect phase: index in order of the name being dialled
    ai,            \* connect phase: index of the address being dialled
    log,           \* the _drop_connection and _make_connection calls of the pass
    step,          \* service.step
    loopInterval,  \* service._loop.interval (0: no loop yet)
    retry,         \* the names of which every address failed in the last
                   \* pass; while a pass is suspended, the names of its
                   \* topology of which every address failed in the pass of
                   \* the previous update()
    last,          \* the call that ran last, for connectionLost and getClient:
                   \* the instance it ran for, the instance it returned; and
                   \* the exception update() ended with, as op
    calcArgs,      \* the arguments of a call of _calculate_interval
    calcResult,    \* what that call returned (0: not called yet)
    args,          \* maas_wipe.main: args.secure_erase and args.quick_erase
    kname,         \* maas_wipe.main: the disks taken from get_disk_info so far
    info,          \* the security info of the disk being wiped
    wpc,           \* where maas_wipe is: "main", or the call it waits for
    calls,         \* the calls made for the disk being wiped, with outcomes
    buf,           \* the first 1 MiB of the disk being wiped
    error,         \* what secure_erase_hdparm raised for this disk
    wiped          \* what try_secure_erase returned for this disk

vars == <<running, connections, clients, pc, eventloops, fetched, repeat, order,
          ni, ai, log, step, loopInterval, retry, last, calcArgs, calcResult,
          args, kname, info, wpc, calls, buf, error, wiped>>

\* The state of the service and of its connections.
serviceVars == <<running, connections, clients, pc, eventloops, fetched, repeat,
                 order, ni, ai, log, step, loopInterval, retry, last>>

\* The state of a call of _calculate_interval on its own.
calcVars == <<calcArgs, calcResult>>

\* The state of a run of maas_wipe.
wipeVars == <<args, kname, info, wpc, calls, buf, error, wiped>>

Inst == 1..Len(clients)

Event(op, inst, res) == [op |-> op, inst |-> inst, res |-> res]

\* The names that have a registry entry: the keys of service.connections.
Registered(conns) == {n \in Names : conns[n] # 0}


Min(S) == CHOOSE x \in S : \A y \in S : x <= y

(***************************************************************************)
(* ClusterClient                                                           *)
(***************************************************************************)

\* A new instance, made by _make_connection, once its transport connected.
\* st: "connected", "closing" (loseConnection called, connectionLost not yet
\* delivered) or "lost".  sec: where secureConnection is for this instance:
\* "none" (not called), "tls" (waiting for StartTLS), "ident" (waiting for
\* Identify), "rejected" (returned after closing the connection), "ok"
\* (returned without closing it) or "done" (nothing left to do: the transport
\* is lost).  response: the response to Identify that secureConnection holds.
NewClient(name, address, st) ==
    [eventloop |-> name, address |-> address, st |-> st, sec |-> "none",
     response |-> EmptyObject]

\* transport.loseConnection(): the transport stops reading and closes; the
\* reactor delivers connectionLost later.
LoseConnection(cl, i) ==
    [cl EXCEPT ![i].st = IF @ = "connected" THEN "closing" ELSE @]

\* Mutant of ConnectionMadeCloses: the test of service.running is missing.
ConnectionMadeCloses_NoRunningTest(conns, run, name) ==
    IF conns[name] # 0 THEN TRUE ELSE FALSE

\* connectionMade: whether the new instance asks its transport to close.
ConnectionMadeCloses(conns, run, name) ==
    IF ~run THEN TRUE
    ELSE IF conns[name] # 0 THEN TRUE
    ELSE FALSE

\* Mutant of ConnectionMadeConns: the newest connection of a name replaces the
\* registered one.
ConnectionMadeConns_LastWins(conns, run, name, i) ==
    IF ~run THEN conns ELSE [conns EXCEPT ![name] = i]

\* Mutant of ConnectionMadeConns: the test of service.running is missing.
ConnectionMadeConns_NoRunningTest(conns, run, name, i) ==
    IF conns[name] # 0 THEN conns ELSE [conns EXCEPT ![name] = i]

\* connectionMade: the registry once instance i, for `name`, has connected.
ConnectionMadeConns(conns, run, name, i) ==
    IF ~run THEN conns
    ELSE IF conns[name] # 0 THEN conns
    ELSE [conns EXCEPT ![name] = i]

\* Mutant of ConnectionLostConns: the entry is deleted only for a connection
\* that the cluster itself had asked to close.
ConnectionLostConns_OnlyIfClosing(conns, cl, i) ==
    IF conns[cl[i].eventloop] = i /\ cl[i].st = "closing"
    THEN [conns EXCEPT ![cl[i].eventloop] = 0]
    ELSE conns

\* Mutant of ConnectionLostConns: connectionLost leaves the registry alone.
ConnectionLostConns_Keeps(conns, cl, i) == conns

\* Mutant of ConnectionLostConns: the "is self" test is missing.
ConnectionLostConns_NoIsSelf(conns, cl, i) ==
    IF conns[cl[i].eventloop] # 0
    THEN [conns EXCEPT ![cl[i].eventloop] = 0]
    ELSE conns

\* connectionLost: the registry once instance i has lost its transport.
ConnectionLostConns(conns, cl, i) ==
    IF conns[cl[i].eventloop] # 0
    THEN IF conns[cl[i].eventloop] = i
         THEN [conns EXCEPT ![cl[i].eventloop] = 0]
         ELSE conns
    ELSE conns

\* The reactor delivers connectionLost to instance i: asked for by
\* loseConnection, or because the peer or the network closed the transport.
\* A callRemote of secureConnection that is waiting fails with it, and one made
\* later fails at once: secureConnection has nothing left to do.
ConnectionLost(i) ==
    /\ clients[i].st \in {"connected", "closing"}
    /\ connections' = ConnectionLostConns(connections, clients, i)
    /\ clients' = [clients EXCEPT ![i].st = "lost", ![i].sec = "done",
                                  ![i].response = EmptyObject]
    /\ last' = Event("connectionLost", i, 0)
    /\ UNCHANGED <<running, pc, eventloops, fetched, repeat, order, ni, ai,
                   log, step, loopInterval>>
    /\ UNCHANGED retry
    /\ UNCHANGED calcVars
    /\ UNCHANGED wipeVars

\* secureConnection, up to its first yield: callRemote(amp.StartTLS, ...).
SecureConnection(i) ==
    /\ clients[i].st = "connected"
    /\ clients[i].sec = "none"
    /\ clients' = [clients EXCEPT ![i].sec = "tls"]
    /\ last' = Event("service", 0, 0)
    /\ UNCHANGED <<running, connections, pc, eventloops, fetched, repeat,
                   order, ni, ai, log, step, loopInterval>>
    /\ UNCHANGED retry
    /\ UNCHANGED calcVars
    /\ UNCHANGED wipeVars

\* Mutant of StartTLSDone: secureConnection returns once the StartTLS command
\* has completed, without the Identify round-trip.
StartTLSDone_SkipsIdentify(i) ==
    /\ clients[i].st = "connected"
    /\ clients[i].sec = "tls"
    /\ clients' = [clients EXCEPT ![i].sec = "ok"]
    /\ last' = Event("service", 0, 0)
    /\ UNCHANGED <<running, connections, pc, eventloops, fetched, repeat,
                   order, ni, ai, log, step, loopInterval>>
    /\ UNCHANGED retry
    /\ UNCHANGED calcVars
    /\ UNCHANGED wipeVars

\* The StartTLS command has completed: callRemote(region.Identify) is issued.
StartTLSDone(i) ==
    /\ clients[i].st = "connected"
    /\ clients[i].sec = "tls"
    /\ clients' = [clients EXCEPT ![i].sec = "ident"]
    /\ last' = Event("service", 0, 0)
    /\ UNCHANGED <<running, connections, pc, eventloops, fetched, repeat,
                   order, ni, ai, log, step, loopInterval>>
    /\ UNCHANGED retry
    /\ UNCHANGED calcVars
    /\ UNCHANGED wipeVars

\* The name secureConnection reads from the response to Identify.
RemoteName(response) == Get(response, "name")

\* The response to Identify has arrived: the rest of secureConnection.
IdentifyDone(i, response) ==
    /\ clients[i].st = "connected"
    /\ clients[i].sec = "ident"
    /\ clients' =
         IF RemoteName(response) # clients[i].eventloop
         THEN [LoseConnection(clients, i) EXCEPT
                  ![i].sec = "rejected", ![i].response = response]
         ELSE [clients EXCEPT ![i].sec = "ok", ![i].response = response]
    /\ last' = Event("service", 0, 0)
    /\ UNCHANGED <<running, connections, pc, eventloops, fetched, repeat,
                   order, ni, ai, log, step, loopInterval>>
    /\ UNCHANGED retry
    /\ UNCHANGED calcVars
    /\ UNCHANGED wipeVars

(***************************************************************************)
(* ClusterClientService                                                    *)
(***************************************************************************)

\* list(self.connections.viewvalues())
ConnectionValues(conns) == {conns[n] : n \in Registered(conns)}

\* Mutant of GetClientChoices: always the first connection of the list.
GetClientChoices_First(conns) == {Min(ConnectionValues(conns))}

\* random.choice(conns): the instances getClient can return for this registry.
GetClientChoices(conns) == ConnectionValues(conns)

\* Mutant of GetClient: the connection returned is taken out of the registry.
GetClient_Pops ==
    /\ \/ /\ Cardinality(ConnectionValues(connections)) = 0
          /\ last' = Event("getClient", 0, 0)
          /\ connections' = connections
       \/ /\ Cardinality(ConnectionValues(connections)) # 0
          /\ \E c \in GetClientChoices(connections) :
                /\ last' = Event("getClient", 0, c)
                /\ connections' =
                     [n \in Names |->
                        IF connections[n] = c THEN 0 ELSE connections[n]]
    /\ UNCHANGED <<running, clients, pc, eventloops, fetched, repeat, order,
                   ni, ai, log, step, loopInterval>>
    /\ UNCHANGED retry
    /\ UNCHANGED calcVars
    /\ UNCHANGED wipeVars

\* getClient raises NoConnectionsAvailable (res = 0) or returns a Client
\* wrapping one of the connections (res = the instance).
GetClient ==
    /\ \/ /\ Cardinality(ConnectionValues(connections)) = 0
          /\ last' = Event("getClient", 0, 0)
       \/ /\ Cardinality(ConnectionValues(connections)) # 0
          /\ \E c \in GetClientChoices(connections) :
                last' = Event("getClient", 0, c)
    /\ UNCHANGED <<running, connections, clients, pc, eventloops, fetched,
                   repeat, order, ni, ai, log, step, loopInterval>>
    /\ UNCHANGED retry
    /\ UNCHANGED calcVars
    /\ UNCHANGED wipeVars

\* Mutant of CalculateInterval: as many connections as event-loops is still
\* the middle interval.
CalculateInterval_LE(num_eventloops, num_connections) ==
    IF num_eventloops = <<>> THEN INTERVAL_LOW
    ELSE IF num_eventloops[1] = 0 THEN INTERVAL_LOW
    ELSE IF num_connections[1] = 0 THEN INTERVAL_LOW
    ELSE IF num_connections[1] <= num_eventloops[1] THEN INTERVAL_MID
    ELSE INTERVAL_HIGH

\* _calculate_interval; a count that is None is <<>>, a known count k is <<k>>.
CalculateInterval(num_eventloops, num_connections) ==
    IF num_eventloops = <<>> THEN INTERVAL_LOW
    ELSE IF num_eventloops[1] = 0 THEN INTERVAL_LOW
    ELSE IF num_connections[1] = 0 THEN INTERVAL_LOW
    ELSE IF num_connections[1] < num_eventloops[1] THEN INTERVAL_MID
    ELSE INTERVAL_HIGH

\* Mutant of UpdateInterval: self.step is set, the loop's interval is not.
UpdateInterval_StepOnly(num_eventloops, num_connections) ==
    /\ step' = CalculateInterval(num_eventloops, num_connections)
    /\ UNCHANGED loopInterval

\* _update_interval: self._loop.interval = self.step = _calculate_interval(..)
UpdateInterval(num_eventloops, num_connections) ==
    /\ step' = CalculateInterval(num_eventloops, num_connections)
    /\ loopInterval' = step'

\* _drop_connection(connection)
DropConnection(cl, i) == LoseConnection(cl, i)

\* _drop_connection for every instance of the set.
DropAll(cl, insts) ==
    [i \in DOMAIN cl |-> IF i \in insts THEN DropConnection(cl, i)[i] ELSE cl[i]]

\* The entries of log: a call of _drop_connection, a call of
\* _make_connection, and how the dial of that call ended.
DropEntry(cl, i) ==
    [op |-> "drop", name |-> cl[i].eventloop, address |-> cl[i].address,
     inst |-> i]
DialEntry(name, address) ==
    [op |-> "dial", name |-> name, address |-> address, inst |-> 0]
FailedEntry(name, address) ==
    [op |-> "failed", name |-> name, address |-> address, inst |-> 0]
ConnectedEntry(name, address, i) ==
    [op |-> "connected", name |-> name, address |-> address, inst |-> i]

\* Mutant of StaleAddress: the first loop of _update_connections is missing.
StaleAddress_None(conns, cl, topo) == {}

\* Mutant of StaleAddress: every advertised name that has a connection.
StaleAddress_Any(conns, cl, topo) == {n \in DOMAIN topo : conns[n] # 0}

\* First loop of _update_connections: the advertised names whose registered
\* connection has an address that is not among the advertised ones.
StaleAddress(conns, cl, topo) ==
    {n \in DOMAIN topo :
        /\ conns[n] # 0
        /\ cl[conns[n]].address \notin Range(topo[n])}

\* Mutant of Unadvertised: the last loop of _update_connections is missing.
Unadvertised_None(conns, topo) == {}

\* Last loop of _update_connections: the registered names not advertised.
Unadvertised(conns, topo) == {n \in Registered(conns) : n \notin DOMAIN topo}

\* The drops of one loop, as log entries, for the names of `ns` in the order
\* `ord` lists them.
DropEntries(conns, cl, ord, ns) ==
    LET sel == SelectSeq(ord, LAMBDA n : n \in ns)
    IN  [j \in 1..Len(sel) |-> DropEntry(cl, conns[sel[j]])]

\* The order in which the log lists the drops of the last loop (the drops of
\* one loop commute: each only asks a transport to close).
NameSeq == CHOOSE s \in Orders(Names) : TRUE

\* Mutant of NeedDial: every advertised name is dialled, registered or not.
NeedDial_All(conns, ord, k) == k..Len(ord)

\* Connect phase: the positions in `ord`, from k on, of the names that have no
\* registry entry ("if eventloop not in self.connections").
NeedDial(conns, ord, k) == {j \in k..Len(ord) : conns[ord[j]] = 0}

\* Mutant of Resume: the connections of the names that are not advertised are
\* dropped before the first connect attempt instead of after the last.
Resume_DropsUnadvertisedFirst(conns, cl, lg, topo, ord, k) ==
    LET un  == IF k = 1 THEN Unadvertised(conns, topo) ELSE {}
        cl1 == DropAll(cl, {conns[n] : n \in un})
        lg1 == lg \o DropEntries(conns, cl, NameSeq, un)
    IN  IF NeedDial(conns, ord, k) # {}
        THEN LET j == Min(NeedDial(conns, ord, k))
             IN  /\ connections' = conns
                 /\ clients' = cl1
                 /\ pc' = "dialing"
                 /\ ni' = j
                 /\ ai' = 1
                 /\ log' = Append(lg1, DialEntry(ord[j], topo[ord[j]][1]))
                 /\ order' = ord
                 /\ UNCHANGED <<step, loopInterval>>
        ELSE /\ connections' = conns
             /\ clients' = cl1
             /\ pc' = "idle"
             /\ ni' = 0
             /\ ai' = 0
             /\ log' = lg1
             /\ order' = <<>>
             /\ UpdateInterval(<<Cardinality(DOMAIN topo)>>,
                               <<Cardinality(Registered(conns))>>)

\* Mutant of Resume: the connect attempts of all the names that need one are
\* started together.
Resume_DialsAll(conns, cl, lg, topo, ord, k) ==
    IF NeedDial(conns, ord, k) # {}
    THEN LET j  == Min(NeedDial(conns, ord, k))
             js == SelectSeq([i \in 1..Len(ord) |-> i],
                             LAMBDA i : i \in NeedDial(conns, ord, k))
         IN  /\ connections' = conns
             /\ clients' = cl
             /\ pc' = "dialing"
             /\ ni' = j
             /\ ai' = 1
             /\ log' = lg \o [i \in 1..Len(js) |->
                                DialEntry(ord[js[i]], topo[ord[js[i]]][1])]
             /\ order' = ord
             /\ UNCHANGED <<step, loopInterval>>
    ELSE LET un == Unadvertised(conns, topo)
         IN  /\ connections' = conns
             /\ clients' = DropAll(cl, {conns[n] : n \in un})
             /\ pc' = "idle"
             /\ ni' = 0
             /\ ai' = 0
             /\ log' = lg \o DropEntries(conns, cl, NameSeq, un)
             /\ order' = <<>>
             /\ UpdateInterval(<<Cardinality(DOMAIN topo)>>,
                               <<Cardinality(Registered(conns))>>)

\* update() and _update_connections from position k of the connect phase up to
\* the next suspension: the next _make_connection, or else the last loop, the
\* return, and _update_interval in update()'s else clause.
Resume(conns, cl, lg, topo, ord, k) ==
    IF NeedDial(conns, ord, k) # {}
    THEN LET j == Min(NeedDial(conns, ord, k))
         IN  /\ connections' = conns
             /\ clients' = cl
             /\ pc' = "dialing"
             /\ ni' = j
             /\ ai' = 1
             /\ log' = Append(lg, DialEntry(ord[j], topo[ord[j]][1]))
             /\ order' = ord
             /\ UNCHANGED <<step, loopInterval>>
    ELSE LET un == Unadvertised(conns, topo)
         IN  /\ connections' = conns
             /\ clients' = DropAll(cl, {conns[n] : n \in un})
             /\ pc' = "idle"
             /\ ni' = 0
             /\ ai' = 0
             /\ log' = lg \o DropEntries(conns, cl, NameSeq, un)
             /\ order' = <<>>
             /\ UpdateInterval(<<Cardinality(DOMAIN topo)>>,
                               <<Cardinality(Registered(conns))>>)

\* TimerService.startService: running is set and the loop is started with
\* now=True, so update() is called at once and suspends on the fetch.
\* The service is started again only once the Deferred of stopService has
\* fired, that is once an update() that was in progress has returned.
StartService ==
    /\ ~running
    /\ pc = "idle"
    /\ running' = TRUE
    /\ loopInterval' = step
    /\ pc' = "fetching"
    /\ log' = <<>>
    /\ last' = Event("service", 0, 0)
    /\ UNCHANGED <<connections, clients, eventloops, fetched, repeat, order,
                   ni, ai, step>>
    /\ UNCHANGED retry
    /\ UNCHANGED calcVars
    /\ UNCHANGED wipeVars

\* TimerService.stopService: the loop is stopped; an update() that is
\* suspended still runs to its end.
StopService ==
    /\ running
    /\ running' = FALSE
    /\ last' = Event("service", 0, 0)
    /\ UNCHANGED <<connections, clients, pc, eventloops, fetched, repeat,
                   order, ni, ai, log, step, loopInterval>>
    /\ UNCHANGED retry
    /\ UNCHANGED calcVars
    /\ UNCHANGED wipeVars

\* Mutant of Update: the loop calls update() every interval, whether or not
\* the previous call has returned.
Update_NoWait ==
    /\ running
    /\ pc' = "fetching"
    /\ log' = <<>>
    /\ last' = Event("service", 0, 0)
    /\ UNCHANGED <<running, connections, clients, eventloops, fetched, repeat,
                   order, ni, ai, step, loopInterval>>
    /\ UNCHANGED retry
    /\ UNCHANGED calcVars
    /\ UNCHANGED wipeVars

\* The loop calls update() again, the interval after the previous call's
\* Deferred fired: update() up to "yield self._fetch_rpc_info(info_url)".
Update ==
    /\ running
    /\ pc = "idle"
    /\ pc' = "fetching"
    /\ log' = <<>>
    /\ last' = Event("service", 0, 0)
    /\ UNCHANGED <<running, connections, clients, eventloops, fetched, repeat,
                   order, ni, ai, step, loopInterval>>
    /\ UNCHANGED retry
    /\ UNCHANGED calcVars
    /\ UNCHANGED wipeVars

\* Mutant of FetchFailed: the except clauses also drop every connection.
FetchFailed_DropsAll(r) ==
    /\ pc = "fetching"
    /\ Raised(r) # "none"
    /\ pc' = "idle"
    /\ UpdateInterval(<<>>, <<Cardinality(Registered(connections))>>)
    /\ clients' = DropAll(clients, ConnectionValues(connections))
    /\ eventloops' = EmptyObject
    /\ fetched' = FALSE
    /\ repeat' = FALSE
    /\ retry' = {}
    /\ last' = Event(Raised(r), 0, 0)
    /\ UNCHANGED <<running, connections, order, ni, ai, log>>
    /\ UNCHANGED calcVars
    /\ UNCHANGED wipeVars

\* The try block of update() raised before any connection was dropped or
\* made: the except clause that handles the exception sets the interval and
\* update() returns; an exception no clause handles would leave update()
\* (pc "failed": the Deferred fails and the loop stops calling update()).
FetchFailed(r) ==
    /\ pc = "fetching"
    /\ Raised(r) # "none"
    /\ IF ExceptClause(Raised(r)) = "unhandled"
       THEN /\ pc' = "failed"
            /\ UNCHANGED <<step, loopInterval>>
       ELSE /\ pc' = "idle"
            /\ UpdateInterval(<<>>, <<Cardinality(Registered(connections))>>)
    /\ eventloops' = EmptyObject
    /\ fetched' = FALSE
    /\ repeat' = FALSE
    /\ retry' = {}
    /\ last' = Event(Raised(r), 0, 0)
    /\ UNCHANGED <<running, connections, clients, order, ni, ai, log>>
    /\ UNCHANGED calcVars
    /\ UNCHANGED wipeVars

\* Every address the topology lists for the name has a failed dial in the log.
AllFailed(lg, topo, name) ==
    /\ name \in DOMAIN topo
    /\ \A k \in DOMAIN topo[name] :
          FailedEntry(name, topo[name][k]) \in Range(lg)

\* The names of a topology of which every address has a failed dial.
FailedNames(lg, topo) == {n \in DOMAIN topo : AllFailed(lg, topo, n)}

\* Mutant of FetchDone: _drop_connection takes the connection out of the
\* registry itself.
FetchDone_Unregisters(r, ord) ==
    /\ pc = "fetching"
    /\ Raised(r) = "none"
    /\ LET topo  == r.body.eventloops
           stale == StaleAddress(connections, clients, topo)
       IN  /\ ord \in Orders(DOMAIN topo)
           /\ eventloops' = topo
           /\ fetched' = TRUE
           /\ repeat' = (fetched /\ topo = eventloops)
           /\ Resume([n \in Names |-> IF n \in stale THEN 0
                                                     ELSE connections[n]],
                     DropAll(clients, {connections[n] : n \in stale}),
                     DropEntries(connections, clients, ord, stale),
                     topo, ord, 1)
           /\ retry' = IF pc' = "idle" THEN FailedNames(log', topo)
                                       ELSE retry \cap DOMAIN topo
    /\ last' = Event("service", 0, 0)
    /\ UNCHANGED running
    /\ UNCHANGED calcVars
    /\ UNCHANGED wipeVars

\* The fetch gave a topology: _update_connections runs its first loop (the
\* drops do not suspend) and its connect phase up to the first dial.
FetchDone(r, ord) ==
    /\ pc = "fetching"
    /\ Raised(r) = "none"
    /\ LET topo  == r.body.eventloops
           stale == StaleAddress(connections, clients, topo)
       IN  /\ ord \in Orders(DOMAIN topo)
           /\ eventloops' = topo
           /\ fetched' = TRUE
           /\ repeat' = (fetched /\ topo = eventloops)
           /\ Resume(connections,
                     DropAll(clients, {connections[n] : n \in stale}),
                     DropEntries(connections, clients, ord, stale),
                     topo, ord, 1)
           /\ retry' = IF pc' = "idle" THEN FailedNames(log', topo)
                                       ELSE retry \cap DOMAIN topo
    /\ last' = Event("service", 0, 0)
    /\ UNCHANGED running
    /\ UNCHANGED calcVars
    /\ UNCHANGED wipeVars

\* Mutant of NextAddress: only the first address of a name is tried.
NextAddress_FirstOnly(addresses, k) == 0

\* Mutant of NextAddress: the address that failed is tried again.
NextAddress_Same(addresses, k) == k

\* Mutant of NextAddress: after the last address the list is tried again from
\* its first address.
NextAddress_StartsOver(addresses, k) ==
    IF k < Len(addresses) THEN k + 1 ELSE 1

\* "for address in addresses": the index of the address tried after the k-th
\* one failed, 0 when the list is exhausted.
NextAddress(addresses, k) == IF k < Len(addresses) THEN k + 1 ELSE 0

\* The dial in flight failed (ConnectError or anything else): the next address
\* of the same name is tried, or else the connect phase goes on.
DialFailed ==
    /\ pc = "dialing"
    /\ IF NextAddress(eventloops[order[ni]], ai) # 0
       THEN /\ ai' = NextAddress(eventloops[order[ni]], ai)
            /\ log' = log \o <<FailedEntry(order[ni], eventloops[order[ni]][ai]),
                                DialEntry(order[ni],
                                          eventloops[order[ni]][ai'])>>
            /\ UNCHANGED <<connections, clients, pc, order, ni, step,
                           loopInterval>>
       ELSE Resume(connections, clients,
                   Append(log,
                          FailedEntry(order[ni], eventloops[order[ni]][ai])),
                   eventloops, order, ni + 1)
    /\ last' = Event("service", 0, 0)
    /\ UNCHANGED <<running, eventloops, fetched, repeat>>
    /\ retry' = IF pc' = "idle" THEN FailedNames(log', eventloops) ELSE retry
    /\ UNCHANGED calcVars
    /\ UNCHANGED wipeVars

\* The dial in flight succeeded: connectionMade runs for the new instance,
\* then the Deferred of connectProtocol fires and the pass goes on ("break").
DialDone ==
    /\ pc = "dialing"
    /\ Len(clients) < MaxInst
    /\ LET name == order[ni]
           i    == Len(clients) + 1
           st   == IF ConnectionMadeCloses(connections, running, name)
                   THEN "closing" ELSE "connected"
       IN  /\ Resume(ConnectionMadeConns(connections, running, name, i),
                     Append(clients,
                            NewClient(name, eventloops[name][ai], st)),
                     Append(log, ConnectedEntry(name, eventloops[name][ai], i)),
                     eventloops, order, ni + 1)
           /\ last' = Event("service", 0, 0)
    /\ UNCHANGED <<running, eventloops, fetched, repeat>>
    /\ retry' = IF pc' = "idle" THEN FailedNames(log', eventloops) ELSE retry
    /\ UNCHANGED calcVars
    /\ UNCHANGED wipeVars

\* The service after __init__, before startService.
ServiceInit ==
    /\ running = FALSE
    /\ connections = [n \in Names |-> 0]
    /\ clients = <<>>
    /\ pc = "idle"
    /\ eventloops = EmptyObject
    /\ fetched = FALSE
    /\ repeat = FALSE
    /\ order = <<>>
    /\ ni = 0
    /\ ai = 0
    /\ log = <<>>
    /\ step = CalculateInterval(<<>>, <<>>)
    /\ loopInterval = 0
    /\ retry = {}
    /\ last = Event("service", 0, 0)

\* No exception.
NoError == [type |-> "none", msg |-> ""]

\* maas_wipe before main() has parsed its arguments and taken a disk.
NoDisk ==
    /\ kname = 0
    /\ info = [supported |-> FALSE, enabled |-> FALSE, locked |-> FALSE,
               frozen |-> FALSE]
    /\ wpc = "main"
    /\ calls = <<>>
    /\ buf = "T"
    /\ error = NoError
    /\ wiped = FALSE

\* maas_wipe does not run in the service: main() has found no disk.
NoWipe ==
    /\ args = [secure_erase |-> FALSE, quick_erase |-> FALSE]
    /\ NoDisk

\* __init__ calls _calculate_interval(None, None) for the first step.
Init ==
    /\ ServiceInit
    /\ calcArgs = <<<<>>, <<>>>>
    /\ calcResult = 0
    /\ NoWipe

Next ==
    \/ StartService
    \/ StopService
    \/ Update
    \/ \E r \in FetchResults : FetchFailed(r)
    \/ \E r \in FetchedTopologies :
          \E ord \in Orders(DOMAIN r.body.eventloops) : FetchDone(r, ord)
    \/ DialFailed
    \/ DialDone
    \/ \E i \in Inst : ConnectionLost(i)
    \/ GetClient

\* The service as the code under src/ runs it: nothing calls secureConnection.
Spec == Init /\ [][Next]_vars

\* What the reactor is bound to do in the end: call update() again once the
\* interval has passed in a running service, end a fetch, end a dial, and
\* deliver connectionLost to a transport that was asked to close.  A peer or
\* the network may close a connected transport, but need not.
Fairness ==
    /\ WF_vars(Update)
    /\ WF_vars(\/ \E r \in FetchResults : FetchFailed(r)
               \/ \E r \in FetchedTopologies :
                     \E ord \in Orders(DOMAIN r.body.eventloops) :
                        FetchDone(r, ord))
    /\ WF_vars(DialFailed \/ DialDone)
    /\ \A i \in 1..(MaxInst + 1) :
          WF_vars(i \in Inst /\ clients[i].st = "closing" /\ ConnectionLost(i))

\* The service started once and kept running, under a reactor that does what
\* it is bound to do; getClient, which changes nothing, is left out.
NextFair ==
    \/ StartService
    \/ Update
    \/ \E r \in FetchResults : FetchFailed(r)
    \/ \E r \in FetchedTopologies :
          \E ord \in Orders(DOMAIN r.body.eventloops) : FetchDone(r, ord)
    \/ DialFailed
    \/ DialDone
    \/ \E i \in Inst : ConnectionLost(i)

SpecFair == Init /\ [][NextFair]_vars /\ Fairness

\* The service with a caller of secureConnection for the connected instances,
\* in a service that is started once and keeps running.
NextSecure ==
    \/ StartService
    \/ Update
    \/ \E r \in FetchResults : FetchFailed(r)
    \/ \E r \in FetchedTopologies :
          \E ord \in Orders(DOMAIN r.body.eventloops) : FetchDone(r, ord)
    \/ DialFailed
    \/ DialDone
    \/ \E i \in Inst : ConnectionLost(i)
    \/ \E i \in Inst : SecureConnection(i)
    \/ \E i \in Inst : StartTLSDone(i)
    \/ \E i \in Inst, response \in IdentifyResponses : IdentifyDone(i, response)
    \/ GetClient

SpecSecure == Init /\ [][NextSecure]_vars

\* The transport of a new ClusterClient(address, eventloop, service) has
\* connected and connectionMade runs for it, whoever made the connection and
\* whenever: also for a name that is being dialled or is registered already.
ConnectionMade(name, address) ==
    /\ Len(clients) < MaxInst
    /\ LET i  == Len(clients) + 1
           st == IF ConnectionMadeCloses(connections, running, name)
                 THEN "closing" ELSE "connected"
       IN  /\ connections' = ConnectionMadeConns(connections, running, name, i)
           /\ clients' = Append(clients, NewClient(name, address, st))
           /\ last' = Event("connectionMade", i, 0)
    /\ UNCHANGED <<running, pc, eventloops, fetched, repeat, order, ni, ai,
                   log, step, loopInterval>>
    /\ UNCHANGED retry
    /\ UNCHANGED calcVars
    /\ UNCHANGED wipeVars

\* The callbacks of ClusterClient on their own: the reactor delivers
\* connectionMade and connectionLost in any order a connection allows, in a
\* service that is started and stopped and whose polls fetch no topology.
NextClient ==
    \/ StartService
    \/ StopService
    \/ Update
    \/ \E r \in FetchResults : FetchFailed(r)
    \/ \E name \in Names, address \in {AddrA, AddrB} :
          ConnectionMade(name, address)
    \/ \E i \in Inst : ConnectionLost(i)

SpecClient == Init /\ [][NextClient]_vars

(***************************************************************************)
(* _calculate_interval on its own                                          *)
(***************************************************************************)

\* The counts _calculate_interval is given: len(eventloops) and
\* len(self.connections), and None for an unknown number of event-loops.
Counts == {<<k>> : k \in 0..MaxCount}
OptCounts == {<<>>} \cup Counts

\* The calls of _calculate_interval: the one of __init__, with None for both
\* counts, and the ones of _update_interval.
InitInterval ==
    /\ ServiceInit
    /\ calcArgs \in {<<<<>>, <<>>>>} \cup (OptCounts \X Counts)
    /\ calcResult = 0
    /\ NoWipe

\* One call: _calculate_interval(num_eventloops, num_connections).
CalculateIntervalCall ==
    /\ calcResult = 0
    /\ calcResult' = CalculateInterval(calcArgs[1], calcArgs[2])
    /\ UNCHANGED <<serviceVars, calcArgs>>
    /\ UNCHANGED wipeVars

NextInterval == CalculateIntervalCall

SpecInterval == InitInterval /\ [][NextInterval]_vars

(***************************************************************************)
(* maas_wipe, as the tests of test_maas_wipe.py call it; hdparm disks      *)
(***************************************************************************)

\* The security info get_disk_info gives for a disk.
Infos ==
    [supported : BOOLEAN, enabled : BOOLEAN, locked : BOOLEAN,
     frozen : BOOLEAN]

\* An entry of calls: what was called or run, and how it ended.
Call(name, outcome) == <<name, outcome>>

WipeError(msg) == [type |-> "WipeError", msg |-> msg]

\* Mutant of SecureEraseAllowed: a frozen drive is erased all the same.
SecureEraseAllowed_IgnoresFrozen(i) ==
    IF ~i.supported THEN FALSE
    ELSE IF i.locked THEN FALSE
    ELSE IF i.enabled THEN FALSE
    ELSE TRUE

\* try_secure_erase: whether it goes on to secure_erase_hdparm.
SecureEraseAllowed(i) ==
    IF ~i.supported THEN FALSE
    ELSE IF i.frozen THEN FALSE
    ELSE IF i.locked THEN FALSE
    ELSE IF i.enabled THEN FALSE
    ELSE TRUE

\* Mutant of Dispatch: the disk is wiped also after a secure erase.
Dispatch_AlwaysWipes(a, w) ==
    IF a.quick_erase THEN "wipe_quickly" ELSE "zero_disk"

\* main: what it calls for a disk once try_secure_erase has returned w, or
\* has not been called (w is FALSE).
Dispatch(a, w) ==
    IF w THEN "none"
    ELSE IF a.quick_erase THEN "wipe_quickly"
    ELSE "zero_disk"

\* main takes the next disk of get_disk_info() and makes its first call.
MainNextDisk(i) ==
    /\ wpc = "main"
    /\ kname < MaxDisks
    /\ kname' = kname + 1
    /\ info' = i
    /\ calls' = <<>>
    /\ buf' = "T"
    /\ error' = NoError
    /\ wiped' = FALSE
    /\ wpc' = IF args.secure_erase THEN "try_secure_erase"
                                   ELSE Dispatch(args, FALSE)
    /\ UNCHANGED <<serviceVars, calcVars, args>>

\* try_secure_erase returns w to main, err being what secure_erase_hdparm
\* raised, and main makes its next call for the disk or goes to the next disk.
TryReturns(w, err, cs) ==
    /\ wiped' = w
    /\ error' = err
    /\ calls' = cs
    /\ wpc' = IF Dispatch(args, w) = "none" THEN "main" ELSE Dispatch(args, w)

\* try_secure_erase up to the first command of secure_erase_hdparm: the known
\* pattern is written to the first 1 MiB and the password is being set.
TrySecureErase ==
    /\ wpc = "try_secure_erase"
    /\ IF SecureEraseAllowed(info)
       THEN /\ buf' = "M"
            /\ calls' = calls \o <<Call("try_secure_erase", "called"),
                                   Call("write", "M")>>
            /\ wpc' = "security-set-pass"
            /\ UNCHANGED <<error, wiped>>
       ELSE /\ TryReturns(FALSE, NoError,
                          Append(calls, Call("try_secure_erase", "called")))
            /\ UNCHANGED buf
    /\ UNCHANGED <<serviceVars, calcVars, args, kname, info>>

\* hdparm --security-set-pass has ended.
SetPassDone(ok) ==
    /\ wpc = "security-set-pass"
    /\ IF ok
       THEN /\ calls' = Append(calls, Call("security-set-pass", "ok"))
            /\ wpc' = "get_hdparm_security_info"
            /\ UNCHANGED <<error, wiped>>
       ELSE TryReturns(FALSE, WipeError(""),
                       Append(calls, Call("security-set-pass", "failed")))
    /\ UNCHANGED <<serviceVars, calcVars, args, kname, info, buf>>

\* Mutant of InfoDone: the erase is issued although security is not enabled.
InfoDone_ErasesAnyway(r) ==
    /\ wpc = "get_hdparm_security_info"
    /\ IF r = "raised"
       THEN TryReturns(FALSE, [type |-> "Exception", msg |-> ""],
                       Append(calls, Call("get_hdparm_security_info", r)))
       ELSE /\ calls' = Append(calls, Call("get_hdparm_security_info", r))
            /\ wpc' = "security-erase"
            /\ UNCHANGED <<error, wiped>>
    /\ UNCHANGED <<serviceVars, calcVars, args, kname, info, buf>>

\* get_hdparm_security_info, called after the password was set, has ended:
\* it raised, or reported security enabled or not enabled.
InfoDone(r) ==
    /\ wpc = "get_hdparm_security_info"
    /\ IF r = "raised"
       THEN TryReturns(FALSE, [type |-> "Exception", msg |-> ""],
                       Append(calls, Call("get_hdparm_security_info", r)))
       ELSE IF r = "not enabled"
       THEN TryReturns(FALSE,
                WipeError("Failed to enable security to perform secure erase."),
                Append(calls, Call("get_hdparm_security_info", r)))
       ELSE /\ calls' = Append(calls, Call("get_hdparm_security_info", r))
            /\ wpc' = "security-erase"
            /\ UNCHANGED <<error, wiped>>
    /\ UNCHANGED <<serviceVars, calcVars, args, kname, info, buf>>

\* secure_erase_hdparm after hdparm --security-erase: what it raises, ok
\* telling whether the command succeeded and data what the first 1 MiB holds.
EraseVerdict(ok, data) ==
    IF ~ok THEN WipeError("Failed to securely erase.")
    ELSE IF data = "M"
    THEN WipeError("Secure erase was performed, but failed to actually work.")
    ELSE NoError

\* hdparm --security-erase has ended; the drive leaves security enabled when
\* the erase failed, and secure_erase_hdparm then disables it.
EraseDone(ok, data) ==
    /\ wpc = "security-erase"
    /\ buf' = data
    /\ LET erased == Append(calls, Call("security-erase",
                                        IF ok THEN "ok" ELSE "failed"))
           after == IF ok
                    THEN erased \o
                         <<Call("get_hdparm_security_info", "not enabled"),
                           Call("read", data)>>
                    ELSE erased \o
                         <<Call("get_hdparm_security_info", "enabled"),
                           Call("security-disable", "ok")>>
       IN  TryReturns(EraseVerdict(ok, data) = NoError,
                      EraseVerdict(ok, data), after)
    /\ UNCHANGED <<serviceVars, calcVars, args, kname, info>>

\* wipe_quickly(disk) or zero_disk(disk, info), called by main, has ended.
WipeDone ==
    /\ wpc \in {"wipe_quickly", "zero_disk"}
    /\ calls' = Append(calls, Call(wpc, "ok"))
    /\ buf' = "0"
    /\ wpc' = "main"
    /\ UNCHANGED <<serviceVars, calcVars, args, kname, info, error, wiped>>

\* main has parsed its arguments; the service part of the model stays idle.
InitWipe ==
    /\ ServiceInit
    /\ calcArgs = <<<<>>, <<>>>>
    /\ calcResult = 0
    /\ args \in [secure_erase : BOOLEAN, quick_erase : BOOLEAN]
    /\ NoDisk

NextWipe ==
    \/ \E i \in Infos : MainNextDisk(i)
    \/ TrySecureErase
    \/ \E ok \in BOOLEAN : SetPassDone(ok)
    \/ \E r \in {"raised", "enabled", "not enabled"} : InfoDone(r)
    \/ \E ok \in BOOLEAN, data \in {"M", "0"} : EraseDone(ok, data)
    \/ WipeDone

SpecWipe == InitWipe /\ [][NextWipe]_vars

(***************************************************************************)
(* Properties                                                              *)
(***************************************************************************)

\* update() has returned from a pass over a fetched topology.
PassDone == pc = "idle" /\ fetched

\* The instances of a name whose transport is connected and has not been asked
\* to close.
Live(name) ==
    {i \in Inst : clients[i].eventloop = name /\ clients[i].st = "connected"}

\* The registry agrees with the topology: every advertised name has an entry
\* at one of its advertised addresses, and every entry's name is advertised.
Reconciled(conns, cl, topo) ==
    /\ \A n \in DOMAIN topo :
          conns[n] # 0 /\ cl[conns[n]].address \in Range(topo[n])
    /\ \A n \in Registered(conns) : n \in DOMAIN topo

\* C1: a connectionLost delivered to an instance that is not the one the
\* registry holds for its event-loop name leaves the registry as it is, so the
\* entry of the other instance for that name stays in place.
C1_ConnectionLostOnlyRemovesSelf ==
    [][(/\ last'.op = "connectionLost"
        /\ connections[clients[last'.inst].eventloop] # last'.inst)
       => connections' = connections]_vars

\* C1 witness: connectionLost has just run for an instance that is not
\* registered while another instance is registered for the same name.
C1_Witness ==
    /\ last.op = "connectionLost"
    /\ connections[clients[last.inst].eventloop] \notin {0, last.inst}

\* C2: for each event-loop name at most one instance is live (connected and not
\* asked to close); the registry, a map, holds at most one instance per name.
C2_AtMostOneLivePerName ==
    \A n \in Names :
        /\ Cardinality(Live(n)) <= 1
        /\ Cardinality({i \in Inst : connections[n] = i}) <= 1

\* C2 witness: a second instance for a name has connected while the first has
\* not yet lost its transport, and one of the two is live.
C2_Witness ==
    \E i, j \in Inst :
        /\ i # j
        /\ clients[i].eventloop = clients[j].eventloop
        /\ clients[i].st = "connected"
        /\ clients[j].st = "closing"

\* C3 (as claimed): after a pass over a fetched topology every registry entry
\* has an advertised name and an address advertised for that name.
C3_RegistryWithinTopology ==
    PassDone =>
        \A n \in Registered(connections) :
            /\ n \in DOMAIN eventloops
            /\ clients[connections[n]].address \in Range(eventloops[n])

\* C4 (as claimed): a connection the pass has dropped is out of the registry
\* from the drop on, before its connectionLost.
C4_DropRemovesAtOnce ==
    \A k \in DOMAIN log :
        log[k].op = "drop" => connections[log[k].name] # log[k].inst

\* C5 (as claimed): a pass that finds a name registered at an address that is
\* no longer advertised, and in which no dial for that name fails, ends with a
\* new connection registered for the name at an advertised address.
C5_MigrationInOnePass ==
    (PassDone /\ running /\ last.op = "service") =>
        \A k \in DOMAIN log :
            (/\ log[k].op = "drop"
             /\ log[k].name \in DOMAIN eventloops
             /\ log[k].address \notin Range(eventloops[log[k].name])
             /\ \A m \in DOMAIN log :
                   ~(log[m].op = "failed" /\ log[m].name = log[k].name))
            => /\ connections[log[k].name] \notin {0, log[k].inst}
               /\ clients[connections[log[k].name]].address
                     \in Range(eventloops[log[k].name])

\* C6 (as claimed): the second of two passes in a row over the same topology
\* makes no connect attempt and no drop.
C6_SecondPassDoesNothing == (fetched /\ repeat) => log = <<>>

\* C6 (amended): a pass that starts with the registry agreeing with the fetched
\* topology makes no connect attempt and no drop, and returns without
\* suspending and without touching the registry or any connection.
C6_ReconciledPassDoesNothing ==
    [][(/\ pc = "fetching"
        /\ pc' # "fetching"
        /\ fetched'
        /\ Reconciled(connections, clients, eventloops'))
       => (/\ log' = <<>>
           /\ pc' = "idle"
           /\ connections' = connections
           /\ clients' = clients)]_vars

\* C6 witness: the second of two passes over the same topology has returned
\* with nothing to do, connections being registered.
C6_Witness ==
    /\ PassDone
    /\ repeat
    /\ last.op = "service"
    /\ log = <<>>
    /\ Registered(connections) # {}
    /\ Reconciled(connections, clients, eventloops)

\* C7 (as claimed): once secureConnection has returned after an identity
\* mismatch, the connection is closing and is not in the registry.
C7_MismatchUnregisters ==
    \A i \in Inst :
        clients[i].sec = "rejected" =>
            /\ clients[i].st = "closing"
            /\ connections[clients[i].eventloop] # i

\* C8 (as claimed): when the response to Identify is {"ident": <the name this
\* connection dialled>}, secureConnection does not close the connection.
C8_MatchingIdentKeepsConnection ==
    \A i \in Inst :
        (/\ clients[i].sec \in {"ok", "rejected"}
         /\ Get(clients[i].response, "ident") = clients[i].eventloop)
        => clients[i].sec = "ok"

\* C9 (as claimed): the connection getClient returns is Open: its
\* secureConnection has returned without closing it and it has not been asked
\* to close.
C9_GetClientReturnsOpen ==
    (last.op = "getClient" /\ last.res # 0) =>
        /\ clients[last.res].st = "connected"
        /\ clients[last.res].sec = "ok"

\* C10: getClient raises NoConnectionsAvailable exactly when the registry is
\* empty; otherwise it returns a connection that is a registry value, and each
\* registry value is a result getClient can give.
C10_GetClientResult ==
    /\ last.op = "getClient" =>
          /\ (last.res = 0) <=> (Registered(connections) = {})
          /\ last.res # 0 => \E n \in Names : connections[n] = last.res
    /\ \A n \in Registered(connections) :
          ENABLED (GetClient /\ last'.res = connections[n])

\* C10 witness: getClient has returned one of two registered connections, the
\* one registered last.
C10_Witness ==
    /\ last.op = "getClient"
    /\ Cardinality(Registered(connections)) = 2
    /\ \A n \in Names : connections[n] <= last.res

\* C11: a call of getClient, at any point and so also while a pass is
\* suspended on a connect attempt, leaves the registry, the poll interval,
\* every connection and the pass as they are, whether it returns a connection
\* or raises NoConnectionsAvailable.
C11_GetClientChangesNothing ==
    [][last'.op = "getClient"
       => UNCHANGED <<running, connections, clients, pc, eventloops, fetched,
                      order, ni, ai, log, step, loopInterval>>]_vars

\* C11 witness: getClient has returned a connection while the pass is
\* suspended on a connect attempt.
C11_Witness ==
    /\ last.op = "getClient"
    /\ last.res # 0
    /\ pc = "dialing"

\* C12: _calculate_interval(e, c) is INTERVAL_LOW when e is None, when e is 0
\* and when e > 0 and c is 0; INTERVAL_MID when 0 < c < e; INTERVAL_HIGH when
\* c >= e > 0; and INTERVAL_LOW < INTERVAL_MID < INTERVAL_HIGH.
C12_IntervalTable ==
    /\ INTERVAL_LOW < INTERVAL_MID
    /\ INTERVAL_MID < INTERVAL_HIGH
    /\ calcResult # 0 =>
          LET e == calcArgs[1]
              c == calcArgs[2]
          IN  /\ e = <<>> => calcResult = INTERVAL_LOW
              /\ (e # <<>> /\ e[1] = 0) => calcResult = INTERVAL_LOW
              /\ (e # <<>> /\ e[1] > 0 /\ c[1] = 0)
                    => calcResult = INTERVAL_LOW
              /\ (e # <<>> /\ 0 < c[1] /\ c[1] < e[1])
                    => calcResult = INTERVAL_MID
              /\ (e # <<>> /\ e[1] > 0 /\ c[1] >= e[1])
                    => calcResult = INTERVAL_HIGH

\* C12 witness: _calculate_interval has returned INTERVAL_HIGH for as many
\* connections as event-loops, more than one.
C12_Witness ==
    /\ calcResult = INTERVAL_HIGH
    /\ calcArgs[1] = calcArgs[2]
    /\ calcArgs[1][1] > 1

\* C13: when the fetch fails, with ConnectError or with any other error
\* raised before _update_connections starts, update() sets the interval to
\* INTERVAL_LOW whatever the number of registered connections, makes no
\* connect attempt and no drop, and leaves the registry as it is.
C13_FailedFetchOnlySetsInterval ==
    [][(/\ pc = "fetching"
        /\ pc' # "fetching"
        /\ last'.op \in {"ConnectError", "Error", "KeyError"})
       => (/\ step' = INTERVAL_LOW
           /\ loopInterval' = INTERVAL_LOW
           /\ connections' = connections
           /\ clients' = clients
           /\ log' = <<>>)]_vars

\* C13 witness: a fetch has failed with an error other than ConnectError
\* while two live connections are registered, and the interval is
\* INTERVAL_LOW.
C13_Witness ==
    /\ last.op = "Error"
    /\ pc = "idle"
    /\ step = INTERVAL_LOW
    /\ Cardinality(Registered(connections)) = 2
    /\ \A n \in Names : clients[connections[n]].st = "connected"

\* C14: update() never raises to the loop that calls it: whatever the try
\* block raises (in the fetch, in reading the response, in
\* _update_connections), update() returns, with the interval INTERVAL_LOW,
\* and a running service can call update() again.
C14_UpdateNeverRaises ==
    [][/\ pc' # "failed"
       /\ (/\ pc = "fetching"
           /\ pc' # "fetching"
           /\ last'.op \in {"ConnectError", "Error", "KeyError",
                            "AttributeError"})
          => (/\ pc' = "idle"
              /\ step' = INTERVAL_LOW
              /\ loopInterval' = INTERVAL_LOW
              /\ running' => (ENABLED Update)')]_vars

\* C14 witness: update() has returned from a call in which
\* _update_connections raised, in a running service with a registered
\* connection, and the interval is INTERVAL_LOW.
C14_Witness ==
    /\ last.op = "AttributeError"
    /\ pc = "idle"
    /\ running
    /\ loopInterval = INTERVAL_LOW
    /\ Registered(connections) # {}

\* C15 (as claimed): a response without the "eventloops" key is handled as one
\* whose "eventloops" is empty: every registered connection is asked to close
\* and the interval is INTERVAL_LOW.
C15_AbsentLikeEmpty ==
    last.op = "KeyError" =>
        /\ step = INTERVAL_LOW
        /\ \A n \in Registered(connections) :
              clients[connections[n]].st = "closing"

\* Every connect attempt of the log has ended, in a failure or a connection.
AllDialsEnded(lg) ==
    \A k \in DOMAIN lg :
        lg[k].op = "dial" =>
            /\ k < Len(lg)
            /\ lg[k + 1].op \in {"failed", "connected"}

C17_DropsBeforeConnects ==
    \A k, m \in DOMAIN log :
        (log[k].op = "drop" /\ log[m].op = "dial") => k < m

\* C17 (amended): within one pass the drops of connections whose address is
\* no longer advertised for their name come before the first connect attempt,
\* and the drops of connections whose name is not advertised come after the
\* last connect attempt.
C17_StaleDropsBeforeUnadvertisedAfter ==
    \A k, m \in DOMAIN log :
        (log[k].op = "drop" /\ log[m].op = "dial") =>
            IF log[k].name \in DOMAIN eventloops THEN k < m ELSE m < k

\* C17 witness: a pass has dropped the connection of a name that is not
\* advertised after a connect attempt for an advertised name.
C17_Witness ==
    /\ PassDone
    /\ \E k, m \in DOMAIN log :
          /\ log[m].op = "dial"
          /\ log[k].op = "drop"
          /\ log[k].name \notin DOMAIN eventloops
          /\ m < k

\* The positions before k of the log's connect attempts for a name.
DialsBefore(name, k) ==
    {m \in 1..(k - 1) : log[m].op = "dial" /\ log[m].name = name}

\* C18: within one pass the addresses of a name are attempted one at a time
\* in the order listed: the j-th attempt for the name is for its j-th
\* address and is made after each of the addresses before it failed in this
\* pass, and no attempt for the name follows a successful one.
C18_AddressesInListedOrder ==
    \A k \in DOMAIN log :
        log[k].op = "dial" =>
            LET name == log[k].name
                j    == Cardinality(DialsBefore(name, k)) + 1
            IN  /\ j <= Len(eventloops[name])
                /\ log[k].address = eventloops[name][j]
                /\ \A i \in 1..(j - 1) :
                      \E m \in 1..(k - 1) :
                          log[m] = FailedEntry(name, eventloops[name][i])
                /\ \A m \in 1..(k - 1) :
                      ~(log[m].op = "connected" /\ log[m].name = name)
                /\ k > 1 => log[k - 1].op # "dial"

\* C18 witness: the first address of a name failed, the second one
\* connected, and the pass has returned.
C18_Witness ==
    /\ PassDone
    /\ \E k, m \in DOMAIN log :
          /\ k < m
          /\ log[k] = FailedEntry("region1", AddrA)
          /\ log[m].op = "connected"
          /\ log[m].name = "region1"
          /\ log[m].address = AddrB

\* C19: when every address of a name fails in a pass, the pass returns as
\* usual with the name left without a registry entry, each address of the
\* name having been attempted exactly once; and the pass of the next
\* update() attempts the name again if its topology still lists the name.
C19_AllFailedNameIsRetriedNextPoll ==
    [][(pc # "idle" /\ pc' = "idle" /\ fetched') =>
         LET before == IF pc = "fetching" THEN retry \cap DOMAIN eventloops'
                                          ELSE retry
         IN  /\ \A n \in FailedNames(log', eventloops') :
                   /\ connections'[n] = 0
                   /\ \A k \in DOMAIN log' :
                         ~(log'[k].op = "connected" /\ log'[k].name = n)
                   /\ \A i \in DOMAIN eventloops'[n] :
                         Cardinality({k \in DOMAIN log' :
                            log'[k] = DialEntry(n, eventloops'[n][i])}) = 1
                   /\ Cardinality({k \in DOMAIN log' :
                         log'[k].op = "dial" /\ log'[k].name = n})
                         = Len(eventloops'[n])
             /\ \A n \in before :
                   \E k \in DOMAIN log' :
                       log'[k].op = "dial" /\ log'[k].name = n]_vars

\* C19 witness: every address of a name failed in the pass of the previous
\* update(), and this pass, whose topology lists the name with two
\* addresses, is attempting the second of them after the first failed.
C19_Witness ==
    /\ pc = "dialing"
    /\ "region1" \in retry
    /\ Len(eventloops["region1"]) = 2
    /\ log[Len(log)] = DialEntry("region1", AddrB)

C22_LostIsTerminal ==
    \A i \in Inst :
        clients[i].st = "lost" =>
            /\ \A n \in Names : connections[n] # i
            /\ ~(last.op = "getClient" /\ last.res = i)

\* C22 witness: getClient has returned the connection that was registered
\* for a name after the connection registered before for that name was lost.
C22_Witness ==
    /\ last.op = "getClient"
    /\ last.res # 0
    /\ \E i \in Inst :
          /\ clients[i].st = "lost"
          /\ clients[i].eventloop = clients[last.res].eventloop
          /\ i < last.res

\* Whether name is among the calls made for the current disk.
Called(name) == \E j \in DOMAIN calls : calls[j][1] = name

\* try_secure_erase is not running: main is between two disks or in the
\* wipe function it has called for the disk.
Ended == wpc \in {"main", "wipe_quickly", "zero_disk"}

\* C23: for every disk main has finished with: when secure erase is
\* requested try_secure_erase is the first call and, if it returned True,
\* neither zero_disk nor wipe_quickly is called; when secure erase is not
\* requested try_secure_erase is never called; and whenever secure erase was
\* not requested or returned False, wipe_quickly is called if quick erase is
\* requested and zero_disk otherwise.
C23_MainDispatch ==
    /\ ~args.secure_erase => ~Called("try_secure_erase")
    /\ (wpc = "main" /\ kname > 0) =>
          /\ args.secure_erase =>
                /\ calls[1][1] = "try_secure_erase"
                /\ wiped => ~Called("zero_disk") /\ ~Called("wipe_quickly")
          /\ (~args.secure_erase \/ ~wiped) =>
                /\ calls[Len(calls)][1] =
                      IF args.quick_erase THEN "wipe_quickly" ELSE "zero_disk"
                /\ Called("wipe_quickly") <=> args.quick_erase
                /\ Called("zero_disk") <=> ~args.quick_erase

\* C23 witness: main has finished with the last disk, for which
\* try_secure_erase returned False and wipe_quickly was called then.
C23_Witness ==
    /\ wpc = "main"
    /\ kname = MaxDisks
    /\ args.secure_erase
    /\ ~wiped
    /\ calls[1][1] = "try_secure_erase"
    /\ calls[Len(calls)][1] = "wipe_quickly"

C25_TrySecureErase ==
    (Called("try_secure_erase") /\ Ended) =>
        IF ~info.supported \/ info.frozen \/ info.locked \/ info.enabled
        THEN /\ ~wiped
             /\ ~Called("write")
             /\ ~Called("security-set-pass")
             /\ ~Called("security-erase")
        ELSE /\ Called("write")
             /\ Called("security-set-pass")
             /\ wiped <=> error = NoError
             /\ ~wiped => wpc # "main" \/ Called("zero_disk")
                                        \/ Called("wipe_quickly")

\* C25 witness: get_hdparm_security_info raised inside secure_erase_hdparm,
\* try_secure_erase returned False and main has zeroed the disk.
C25_Witness ==
    /\ wpc = "main"
    /\ error.type = "Exception"
    /\ ~wiped
    /\ Called("zero_disk")

\* C26 (as claimed): a pass over a fetched topology that advertises at least
\* one event-loop sets the interval to INTERVAL_HIGH only if every advertised
\* name has a registry entry whose connection has not been asked to close.
C26_HighOnlyWhenAllConnected ==
    [][(/\ pc # "idle"
        /\ pc' = "idle"
        /\ fetched'
        /\ DOMAIN eventloops' # {}
        /\ loopInterval' = INTERVAL_HIGH)
       => \A n \in DOMAIN eventloops' :
              /\ connections'[n] # 0
              /\ clients'[connections'[n]].st = "connected"]_vars

\* C27: when a pass over a fetched topology ends, every connection that is
\* registered under a name the topology does not advertise has been dropped
\* in the pass and is asked to close; after a pass over an empty topology
\* this holds of every registered connection, and the interval is
\* INTERVAL_LOW.
C27_UnadvertisedAreDropped ==
    [][(pc # "idle" /\ pc' = "idle" /\ fetched')
       => /\ \A n \in Registered(connections') :
                n \notin DOMAIN eventloops' =>
                    /\ clients'[connections'[n]].st = "closing"
                    /\ \E k \in DOMAIN log' :
                          /\ log'[k].op = "drop"
                          /\ log'[k].inst = connections'[n]
          /\ DOMAIN eventloops' = {} => loopInterval' = INTERVAL_LOW]_vars

\* C27 witness: a pass over an empty topology has just ended with a
\* registered connection, which it has asked to close.
C27_Witness ==
    /\ PassDone
    /\ DOMAIN eventloops = {}
    /\ loopInterval = INTERVAL_LOW
    /\ \E n \in Registered(connections), k \in DOMAIN log :
          /\ clients[connections[n]].st = "closing"
          /\ log[k].op = "drop"
          /\ log[k].inst = connections[n]

C29_FirstRegisteredWins ==
    [][/\ (/\ last'.op = "connectionMade"
           /\ Len(clients') = Len(clients) + 1
           /\ connections[clients'[Len(clients')].eventloop] # 0)
          => /\ clients'[Len(clients')].st = "closing"
             /\ connections' = connections
       /\ \A n \in Names :
             (connections'[n] # 0 /\ connections'[n] # connections[n])
             => /\ connections[n] = 0
                /\ connections'[n] = Len(clients')
                /\ Len(clients') = Len(clients) + 1]_vars

\* C29 witness: in a running service connectionMade has just run for a
\* second instance of a name, and it is the first instance, still connected,
\* that is registered.
C29_Witness ==
    /\ last.op = "connectionMade"
    /\ running
    /\ clients[last.inst].st = "closing"
    /\ connections[clients[last.inst].eventloop] \notin {0, last.inst}
    /\ clients[connections[clients[last.inst].eventloop]].st = "connected"

\* C30: an instance whose transport connects while the service is not running
\* is asked to close and is not registered; and no step taken while the
\* service is not running adds an entry to the registry.
C30_NoEntryWhileNotRunning ==
    [][/\ (Len(clients') = Len(clients) + 1 /\ ~running)
          => /\ clients'[Len(clients')].st = "closing"
             /\ \A n \in Names : connections'[n] # Len(clients')
       /\ (~running \/ ~running')
          => \A n \in Names :
                connections'[n] # 0 => connections'[n] = connections[n]]_vars

\* C30 witness: the service was stopped while a dial was in flight; the dial
\* has succeeded, and the pass has ended with the new instance asked to
\* close and its name without an entry.
C30_Witness ==
    /\ ~running
    /\ PassDone
    /\ \E k \in DOMAIN log :
          /\ log[k].op = "connected"
          /\ clients[log[k].inst].st = "closing"
          /\ connections[log[k].name] = 0

\* C31: a step changes the registry entry of a name in two ways only: the
\* connectionMade of a new instance of that name puts the instance where
\* there was no entry, and the connectionLost of the registered instance
\* deletes the entry.  So update, _update_connections, _drop_connection,
\* _make_connection, _update_interval and getClient never add, replace or
\* delete an entry themselves.
C31_OnlyCallbacksChangeRegistry ==
    [][\A n \in Names :
          connections'[n] # connections[n] =>
              \/ /\ connections[n] = 0
                 /\ Len(clients') = Len(clients) + 1
                 /\ connections'[n] = Len(clients')
                 /\ clients'[Len(clients')].eventloop = n
              \/ /\ connections'[n] = 0
                 /\ last'.op = "connectionLost"
                 /\ last'.inst = connections[n]
                 /\ clients[connections[n]].eventloop = n]_vars

\* C31 witness: a pass has ended in which _drop_connection ran for a
\* connection that is still registered and _make_connection gave a new
\* instance, which its connectionMade has registered.
C31_Witness ==
    /\ PassDone
    /\ \E k, m \in DOMAIN log :
          /\ log[k].op = "drop"
          /\ connections[log[k].name] = log[k].inst
          /\ log[m].op = "connected"
          /\ connections[log[m].name] = log[m].inst

\* C32: every registry entry is keyed by the event-loop name of its own
\* connection, whose connectionMade has run and whose connectionLost has not.
C32_EntriesKeyedByOwnName ==
    \A n \in Registered(connections) :
        /\ connections[n] \in Inst
        /\ clients[connections[n]].eventloop = n
        /\ clients[connections[n]].st \in {"connected", "closing"}

\* C32 witness: a name has a registered connection, asked to close, after an
\* earlier connection of the same name was lost.
C32_Witness ==
    \E n \in Registered(connections), i \in Inst :
        /\ clients[connections[n]].st = "closing"
        /\ clients[i].eventloop = n
        /\ clients[i].st = "lost"

\* No dial of the name to the address has failed in the pass under way or
\* just ended.
NoFailedDial(name, address) ==
    \A k \in DOMAIN log :
        ~(log[k].op = "failed" /\ log[k].name = name
             /\ log[k].address = address)

\* The registry holds for the name a connection at one of the addresses the
\* topology lists for it, which has not been asked to close.
Holds(topo, name) ==
    /\ connections[name] # 0
    /\ clients[connections[name]].address \in Range(topo[name])
    /\ clients[connections[name]].st = "connected"

Unlisted(name, address) ==
    /\ fetched
    /\ name \in DOMAIN eventloops => address \notin Range(eventloops[name])

\* The registry holds for the name a connection at the address.
RegisteredAt(name, address) ==
    /\ connections[name] # 0
    /\ clients[connections[name]].address = address

\* C34: if from some point on every poll fetches a topology and none of them
\* advertises an address for a name (the name is absent, or listed with
\* other addresses), then from some point on the registry holds no
\* connection of that name at that address: the stale connection is removed
\* and none is added again.
C34_StaleConnectionGoes ==
    \A name \in Names :
        \A address \in {AddrA, AddrB} :
            <>[]Unlisted(name, address) => <>[]~RegisteredAt(name, address)

\* C34 witness: a pass over a topology that does not advertise a name has
\* dropped the connection registered for it, and connectionLost has taken
\* the connection out of the registry.
C34_Witness ==
    /\ PassDone
    /\ \E k \in DOMAIN log :
          /\ log[k].op = "drop"
          /\ Unlisted(log[k].name, log[k].address)
          /\ log[k].name \notin DOMAIN eventloops
          /\ clients[log[k].inst].st = "lost"
          /\ connections[log[k].name] = 0

\* C35: self.step is always one of the three intervals, and the interval of
\* the loop, once there is a loop, is equal to it; it is INTERVAL_LOW, the
\* value for unknown counts, when the service is created; the step in which
\* a poll ends sets it to _calculate_interval of the number of event-loops
\* fetched (None if the fetch failed) and the number of registry entries,
\* and no other step changes it.
C35_IntervalIsOfLatestPoll ==
    /\ step = CalculateInterval(<<>>, <<>>)
    /\ step = INTERVAL_LOW
    /\ [](/\ step \in {INTERVAL_LOW, INTERVAL_MID, INTERVAL_HIGH}
          /\ loopInterval \in {0, step})
    /\ [][IF pc # "idle" /\ pc' = "idle"
          THEN /\ step' = CalculateInterval(
                              IF fetched'
                              THEN <<Cardinality(DOMAIN eventloops')>>
                              ELSE <<>>,
                              <<Cardinality(Registered(connections'))>>)
               /\ loopInterval' = step'
          ELSE step' = step]_vars

\* C35 witness: a poll has ended with fewer registry entries than event-loops
\* fetched, and has set the interval to INTERVAL_MID.
C35_Witness ==
    /\ PassDone
    /\ last.op = "service"
    /\ Cardinality(Registered(connections)) > 0
    /\ Cardinality(Registered(connections)) < Cardinality(DOMAIN eventloops)
    /\ step = INTERVAL_MID
    /\ loopInterval = INTERVAL_MID

====
